---- MODULE Spec2Model ----
(***************************************************************************)
(* Quotation lifecycle and numbering engine of Stackflow                   *)
(* (src/src/crud/quotation_service.py, src/src/routes/quotations.py).      *)
(*                                                                         *)
(* The store is the SQLite file of src/src/database/database.py: one       *)
(* writer at a time, readers see committed rows only.  Money is kept in    *)
(* cents, quantities in tenths, discounts in whole percent.                *)
(*                                                                         *)
(* create_quotation is cut where it talks to the store: the number query,  *)
(* the first flush (INSERT, unique index, write lock) and the commit, so   *)
(* that creations of different workers interleave.  The update, delete and *)
(* status handlers are one step each: a handler that writes waits for the  *)
(* write lock.                                                             *)
(***************************************************************************)
EXTENDS Integers, Sequences, FiniteSets, TLC

\* ------------------------------------------------------------------ bounds
MaxReqs == 2      \* handlers that may be inside create/duplicate at once
MaxId == 3        \* largest row id the store hands out
MaxOps == 3       \* requests served in one behaviour
MaxDay == 2       \* days the clock can reach; day 1 is 31 December
FirstYear == 2026 \* calendar year of day 1
MaxRows == 3      \* rows of a table handed to a read operation
MaxPage == 3      \* largest page asked for
MaxLimit == 2     \* largest page size asked for (the schema allows up to 100)
MaxStamp == 2     \* distinct created_at values (func.now() has whole seconds)

\* --------------------------------------------------------- program constants
PadWidth == 3     \* the 03d of the number format

Reqs == 1..MaxReqs
Ids == 1..MaxId
Users == {1, 2}
Creators == {1}   \* user 1 posts new quotations; user 2 owns the copies it makes
Names == {"acme", "bolt"}
StatusNames == {"borrador", "enviada", "aprobada", "rechazada"}
Unset == "unset"
NoRow == [present |-> FALSE]

\* datetime.now().year / date.today() on the model calendar
YearOf(day) == IF day = 1 THEN FirstYear ELSE FirstYear + 1

\* ------------------------------------------------------- python value model
\* Members of the model enum, members of the schema (str, Enum) and plain
\* strings are different kinds of object with their own equality.
QuotationStatusEnum(n) == [cls |-> "QuotationStatusEnum", v |-> n]
QuotationStatus(n) == [cls |-> "QuotationStatus", v |-> n]
Str(s) == [cls |-> "str", v |-> s]

\* a == b : a plain Enum member equals only itself; a str-mixin member
\* compares as the string it is
PyEq(a, b) ==
    IF a.cls = "QuotationStatusEnum" \/ b.cls = "QuotationStatusEnum"
    THEN a = b
    ELSE a.v = b.v

\* x in list
PyIn(x, list) == \E i \in 1..Len(list) : PyEq(list[i], x)

\* dict.get(key, default) on a dict given as a sequence of <<key, value>>
DictGet(dict, key, default) ==
    IF \E i \in 1..Len(dict) : PyEq(dict[i][1], key)
    THEN dict[CHOOSE i \in 1..Len(dict) : PyEq(dict[i][1], key)][2]
    ELSE default

\* the Enum column: rows hold the member's name, loads give the member back
status_bind(value) == value.v
status_load(name) == QuotationStatusEnum(name)

\* --------------------------------------------------------------- arithmetic
RECURSIVE SumSeq(_)
SumSeq(s) == IF s = <<>> THEN 0 ELSE Head(s) + SumSeq(Tail(s))

Max(S) == CHOOSE x \in S : \A y \in S : y <= x

\* round(num/den) to the nearest integer; the inputs below never land on a tie
Round(num, den) ==
    LET q == num \div den
        r == num % den
    IN  IF 2 * r < den THEN q
        ELSE IF 2 * r > den THEN q + 1
        ELSE IF q % 2 = 0 THEN q ELSE q + 1

\* ----------------------------------------------------------- number strings
\* "COT-<year>-<suffix>" is kept as its year and the digits of its suffix.
RECURSIVE Digits(_)
Digits(n) == IF n < 10 THEN <<n>> ELSE Append(Digits(n \div 10), n % 10)

RECURSIVE ZeroPad(_, _)
ZeroPad(ds, width) == IF Len(ds) >= width THEN ds ELSE ZeroPad(<<0>> \o ds, width)

\* f"{n:03d}"
Format03d(n) == ZeroPad(Digits(n), PadWidth)

\* int(s)
RECURSIVE ParseInt(_)
ParseInt(ds) ==
    IF ds = <<>> THEN 0
    ELSE 10 * ParseInt(SubSeq(ds, 1, Len(ds) - 1)) + ds[Len(ds)]

\* string order of two suffixes (byte-wise, a proper prefix sorts first)
RECURSIVE StrLess(_, _)
StrLess(a, b) ==
    IF b = <<>> THEN FALSE
    ELSE IF a = <<>> THEN TRUE
    ELSE IF Head(a) # Head(b) THEN Head(a) < Head(b)
    ELSE StrLess(Tail(a), Tail(b))

VARIABLES
    today,            \* the clock: index of the current day
    quotations,       \* table quotations: id -> row or NoRow
    quotation_items,  \* table quotation_items: quotation_id -> rows in id order
    writer,           \* request holding the SQLite write lock, 0 if none
    pc,               \* where each handler is inside create_quotation
    req,              \* each handler's local variables
    nops,             \* requests accepted so far
    issued,           \* history: numbers of committed inserts, in commit order
    overlapped,       \* history: two creations were in flight together
    last,             \* history: the request that finished last
    item_in,          \* argument of calculate_item_totals (pure-function runs)
    item_out,         \* its result
    call,             \* a read operation and its arguments (query runs)
    ret               \* what it returned

vars == <<today, quotations, quotation_items, writer, pc, req, nops,
          issued, overlapped, last, item_in, item_out, call, ret>>

\* ------------------------------------------------------------------ inputs
Item(q, p, d) == [quantity |-> q, unit_price |-> p, discount_percentage |-> d]

\* 2 x 100.00 at 10 %;  0.3 x 0.04 at 50 % with 1 x 0.04 at 20 %
ItemInputs ==
    { <<Item(20, 10000, 10)>>,
      <<Item(3, 4, 50), Item(10, 4, 20)>> }

NoReq == [op |-> "none", user |-> 0, client_name |-> "", valid_until |-> 0,
          items |-> <<>>, number |-> [year |-> 0, suffix |-> <<>>], id |-> 0]

NoNumber == [year |-> 0, suffix |-> <<>>]

NoCall == [fn |-> "none"]
NoRet == [fn |-> "none"]

NoData == [client_name |-> Unset, valid_until |-> 0, status |-> Unset,
           items_set |-> FALSE, items |-> <<>>]

NoLast == [op |-> "none", id |-> 0, result |-> "none",
           pre_status |-> "none", new_status |-> "none", with_items |-> FALSE,
           user |-> 0, data |-> NoData, named |-> {}, number |-> NoNumber]

PresentIds == {i \in Ids : quotations[i].present}

\* -------------------------------------------------------- Totals Calculator
calculate_item_totals(item_data) ==
    LET subtotal == item_data.quantity * item_data.unit_price        \* 1/10 cent
        discount_amount == subtotal * item_data.discount_percentage  \* 1/1000 cent
        total == subtotal * 100 - discount_amount                    \* 1/1000 cent
    IN  [subtotal |-> Round(subtotal, 10),
         discount_amount |-> Round(discount_amount, 1000),
         total |-> Round(total, 1000)]

\* (variant: the discounts are left out of the document total)
calculate_quotation_totals_NoDiscount(items) ==
    LET subtotal == SumSeq([i \in 1..Len(items) |-> items[i].subtotal])
        discount_total == SumSeq([i \in 1..Len(items) |-> items[i].discount_amount])
    IN  [subtotal |-> subtotal, discount_total |-> discount_total,
         tax_total |-> 0, total |-> subtotal]

calculate_quotation_totals(items) ==
    LET subtotal == SumSeq([i \in 1..Len(items) |-> items[i].subtotal])
        discount_total == SumSeq([i \in 1..Len(items) |-> items[i].discount_amount])
        tax_total == 0
        total == subtotal - discount_total + tax_total
    IN  [subtotal |-> subtotal, discount_total |-> discount_total,
         tax_total |-> tax_total, total |-> total]

\* QuotationItem(...) built from one input item
NewItem(item_data) ==
    LET totals == calculate_item_totals(item_data)
    IN  [quantity |-> item_data.quantity,
         unit_price |-> item_data.unit_price,
         discount_percentage |-> item_data.discount_percentage,
         subtotal |-> totals.subtotal,
         discount_amount |-> totals.discount_amount,
         total |-> totals.total]

\* (variant: the loop stops one item early)
NewItems_DropLast(items) == [i \in 1..(Len(items) - 1) |-> NewItem(items[i])]

\* for item_data in quotation_data.items
NewItems(items) == [i \in 1..Len(items) |-> NewItem(items[i])]

\* -------------------------------------------------------- Sequence Generator
\* (variant: the filter on the year prefix is left out)
LikeYear_AnyYear(number, current_year) == TRUE

\* Quotation.quotation_number.like(f"COT-{current_year}-%")
LikeYear(number, current_year) == number.year = current_year

generate_quotation_number(rows, current_year) ==
    LET matching == {i \in DOMAIN rows :
                        rows[i].present /\ LikeYear(rows[i].quotation_number, current_year)}
        last_quotation == CHOOSE i \in matching : \A j \in matching :
                              ~StrLess(rows[i].quotation_number.suffix,
                                       rows[j].quotation_number.suffix)
        next_number == IF matching # {}
                       THEN ParseInt(rows[last_quotation].quotation_number.suffix) + 1
                       ELSE 1
    IN  [year |-> current_year, suffix |-> Format03d(next_number)]

\* (variant: the column carries no unique index)
UniqueViolation_NoIndex(rows, number) == FALSE

\* unique=True on quotations.quotation_number
UniqueViolation(rows, number) ==
    \E i \in DOMAIN rows : rows[i].present /\ rows[i].quotation_number = number

\* rowid of the next insert: one more than the largest id in the table
NextId(rows) ==
    LET present == {i \in DOMAIN rows : rows[i].present}
    IN  IF present = {} THEN 1 ELSE Max(present) + 1

\* ------------------------------------------------------------------- state
\* a body whose second item has quantity 0
BadItemInputs == { <<Item(20, 10000, 10), Item(0, 4, 0)>> }

\* bodies of POST /quotations/: valid until today (refused) or tomorrow
QuotationCreateInputs ==
    [client_name : {"acme"}, valid_until : today..(today + 1),
     items : ItemInputs \cup BadItemInputs \cup {<<>>}]

\* Field(gt=0) on quantity and unit_price: the error locations of the schema
\* count the items from 0
item_errors(items) ==
    {i - 1 : i \in {k \in 1..Len(items) :
                      items[k].quantity <= 0 \/ items[k].unit_price <= 0}}

\* the route's own loop over enumerate(items): the first offending i, plus 1
first_bad_item(items) ==
    LET bad == {i \in 0..(Len(items) - 1) :
                   items[i + 1].quantity <= 0 \/ items[i + 1].unit_price <= 0}
    IN  IF bad = {} THEN {}
        ELSE {(CHOOSE i \in bad : \A j \in bad : i <= j) + 1}

\* fields left out of a PUT body are Unset / 0 / items_set = FALSE
QuotationUpdate(client_name, valid_until, status, items_set, items) ==
    [client_name |-> client_name, valid_until |-> valid_until, status |-> status,
     items_set |-> items_set, items |-> items]

\* bodies of PUT /quotations/{id}: client and validity, a status and an item
\* list in combination; every status alone; a validity that has passed
QuotationUpdateInputs ==
    { QuotationUpdate(f[1], f[2], st, it[1], it[2]) :
        f \in { <<Unset, 0>>, <<"bolt", MaxDay + 1>> },
        st \in {Unset, "enviada"},
        it \in {<<FALSE, <<>> >>} \cup {<<TRUE, l>> : l \in ItemInputs \cup {<<>>}} }
    \cup { QuotationUpdate(Unset, 0, st, FALSE, <<>>) : st \in StatusNames }
    \cup { QuotationUpdate(Unset, 1, Unset, FALSE, <<>>) }

\* ids a request may name: every stored quotation and one id that is not
TargetIds == {i \in Ids : quotations[i].present \/ i = MaxId}

NoOut == [subtotal |-> -1, discount_amount |-> -1, total |-> -1]

Init ==
    /\ today = 1
    /\ quotations = [i \in Ids |-> NoRow]
    /\ quotation_items = [i \in Ids |-> <<>>]
    /\ writer = 0
    /\ pc = [r \in Reqs |-> "idle"]
    /\ req = [r \in Reqs |-> NoReq]
    /\ nops = 0
    /\ issued = <<>>
    /\ overlapped = FALSE
    /\ last = NoLast
    /\ item_in = Item(20, 10000, 10)
    /\ item_out = NoOut
    /\ call = NoCall
    /\ ret = NoRet

InFlight == {r \in Reqs : pc[r] # "idle"}

Finished(op, id, result, pre_status, new_status) ==
    [op |-> op, id |-> id, result |-> result,
     pre_status |-> pre_status, new_status |-> new_status, with_items |-> FALSE,
     user |-> 0, data |-> NoData, named |-> {}, number |-> NoNumber]

\* last.user is the current_user.id a handler looked at: an answer given
\* before the owner test or the call of the service (404 after the lookup,
\* 422 before the handler runs, the ValidationError of the copy) never reads it
Consulted(user, result) ==
    IF result \in {"404", "422", "500 ValidationError"} THEN 0 ELSE user

\* last.data of a refused create: the body, kept where an item is at fault
RejectedBody(data) == IF item_errors(data.items) # {} THEN data ELSE NoData

\* A request is taken only while the model's budget allows it.
Accept == nops < MaxOps /\ nops' = nops + 1

\* A request that reaches create_quotation runs in the first free handler.
FreeHandler(r) == pc[r] = "idle" /\ \A o \in Reqs : o < r => pc[o] # "idle"

\* validate_valid_until of QuotationCreate / QuotationUpdate
ValidUntilIsFuture(v) == v > today

\* ------------------------------------------------- create_quotation (service)
\* line 79: the number is read from the committed rows
EnterCreate(r, op, user, client_name, valid_until, items, src) ==
    /\ pc' = [pc EXCEPT ![r] = "numbered"]
    /\ req' = [req EXCEPT ![r] =
                 [op |-> op, user |-> user, client_name |-> client_name,
                  valid_until |-> valid_until, items |-> items,
                  number |-> generate_quotation_number(quotations, YearOf(today)),
                  id |-> src]]
    /\ overlapped' = (overlapped \/ InFlight # {})

\* POST /quotations/ up to the number query
CreateQuotation(r, user, data) ==
    /\ FreeHandler(r)
    /\ Accept
    /\ NextId(quotations) + Cardinality(InFlight) <= MaxId
    /\ IF \/ Len(data.items) = 0
          \/ item_errors(data.items) # {}
          \/ ~ValidUntilIsFuture(data.valid_until)
       THEN \* the body does not parse as QuotationCreate
            /\ last' = [Finished("create", 0, "422", "none", "none")
                           EXCEPT !.data = RejectedBody(data),
                                  !.named = item_errors(data.items)]
            /\ UNCHANGED <<pc, req, overlapped>>
       ELSE IF Len(data.items) = 0 \/ first_bad_item(data.items) # {}
       THEN \* lines 166-184
            /\ last' = [Finished("create", 0, "400", "none", "none")
                           EXCEPT !.data = RejectedBody(data),
                                  !.named = first_bad_item(data.items)]
            /\ UNCHANGED <<pc, req, overlapped>>
       ELSE /\ EnterCreate(r, "create", user, data.client_name,
                           data.valid_until, data.items, 0)
            /\ UNCHANGED last
    /\ UNCHANGED <<today, quotations, quotation_items, writer, issued,
                   item_in, item_out, call, ret>>

\* (variant: the copy leaves the discounts out)
duplicate_items_NoDiscount(rows) ==
    [i \in 1..Len(rows) |-> Item(rows[i].quantity, rows[i].unit_price, 0)]

\* items_data: one dict per item of the original
duplicate_items(rows) ==
    [i \in 1..Len(rows) |->
        Item(rows[i].quantity, rows[i].unit_price, rows[i].discount_percentage)]

\* POST /quotations/{id}/duplicate up to the number query
DuplicateQuotation(r, user, quotation_id) ==
    /\ FreeHandler(r)
    /\ Accept
    /\ NextId(quotations) + Cardinality(InFlight) <= MaxId
    /\ LET original_quotation == quotations[quotation_id]
           rows == quotation_items[quotation_id]
           items_data == duplicate_items(rows)
       IN  IF ~original_quotation.present
           THEN /\ last' = [Finished("duplicate", quotation_id, "404", "none", "none")
                               EXCEPT !.user = Consulted(user, "404")]
                /\ UNCHANGED <<pc, req, overlapped>>
           ELSE IF Len(items_data) = 0
                   \/ ~ValidUntilIsFuture(original_quotation.valid_until)
           THEN /\ last' = [Finished("duplicate", quotation_id, "500 ValidationError",
                                     "none", "none")
                               EXCEPT !.user = Consulted(user, "500 ValidationError")]
                /\ UNCHANGED <<pc, req, overlapped>>
           ELSE /\ EnterCreate(r, "duplicate", user, original_quotation.client_name,
                               original_quotation.valid_until, items_data, quotation_id)
                /\ UNCHANGED last
    /\ UNCHANGED <<today, quotations, quotation_items, writer, issued,
                   item_in, item_out, call, ret>>

\* lines 82-97: INSERT of the quotation row at the first flush
CreateFlush(r) ==
    /\ pc[r] = "numbered"
    /\ writer = 0
    /\ IF UniqueViolation(quotations, req[r].number)
       THEN \* IntegrityError: rollback, re-raise, the route answers 500
            /\ pc' = [pc EXCEPT ![r] = "idle"]
            /\ req' = [req EXCEPT ![r] = NoReq]
            /\ last' = [Finished(req[r].op, req[r].id, "500 IntegrityError",
                                 "none", "none") EXCEPT !.user = req[r].user]
            /\ UNCHANGED writer
       ELSE /\ writer' = r
            /\ pc' = [pc EXCEPT ![r] = "flushed"]
            /\ req' = [req EXCEPT ![r].id = NextId(quotations)]
            /\ UNCHANGED last
    /\ UNCHANGED <<today, quotations, quotation_items, nops, issued, overlapped,
                   item_in, item_out, call, ret>>

\* lines 99-136: items, totals, commit
CreateCommit(r) ==
    /\ pc[r] = "flushed"
    /\ LET total_items == NewItems(req[r].items)
           quotation_totals == calculate_quotation_totals(total_items)
           db_quotation ==
               [present |-> TRUE,
                quotation_number |-> req[r].number,
                client_name |-> req[r].client_name,
                valid_until |-> req[r].valid_until,
                created_by |-> req[r].user,
                status |-> status_bind(QuotationStatusEnum("borrador")),
                internal_notes |-> <<>>,
                subtotal |-> quotation_totals.subtotal,
                discount_total |-> quotation_totals.discount_total,
                tax_total |-> quotation_totals.tax_total,
                total |-> quotation_totals.total]
       IN  /\ quotations' = [quotations EXCEPT ![req[r].id] = db_quotation]
           /\ quotation_items' = [quotation_items EXCEPT ![req[r].id] = total_items]
    /\ writer' = 0
    /\ issued' = Append(issued, req[r].number)
    /\ last' = [Finished(req[r].op, req[r].id, "201", "none", "none")
                   EXCEPT !.user = req[r].user]
    /\ pc' = [pc EXCEPT ![r] = "idle"]
    /\ req' = [req EXCEPT ![r] = NoReq]
    /\ UNCHANGED <<today, nops, overlapped, item_in, item_out, call, ret>>

\* (variant: the inserted quotation row survives the failure without items)
Rollback_KeepsRow(r) ==
    /\ quotations' = [quotations EXCEPT ![req[r].id] =
                        [present |-> TRUE, quotation_number |-> req[r].number,
                         client_name |-> req[r].client_name,
                         valid_until |-> req[r].valid_until,
                         created_by |-> req[r].user, status |-> "borrador",
                         internal_notes |-> <<>>, subtotal |-> 0,
                         discount_total |-> 0, tax_total |-> 0, total |-> 0]]
    /\ UNCHANGED quotation_items
    /\ writer' = 0

\* db.rollback(): nothing the transaction wrote stays, the lock is released
Rollback(r) ==
    /\ UNCHANGED <<quotations, quotation_items>>
    /\ writer' = 0

\* lines 99-140 when an item insert or the commit raises
CreateFails(r) ==
    /\ pc[r] = "flushed"
    /\ Rollback(r)
    /\ last' = [Finished(req[r].op, 0, "500 OperationalError", "none", "none")
                   EXCEPT !.user = req[r].user]
    /\ pc' = [pc EXCEPT ![r] = "idle"]
    /\ req' = [req EXCEPT ![r] = NoReq]
    /\ UNCHANGED <<today, nops, issued, overlapped, item_in, item_out, call, ret>>

\* ------------------------------------------------- update_quotation (service)
\* (variant: the loop also blanks the owner column)
update_quotation_ClearsOwner(db_quotation, quotation_data) ==
    [db_quotation EXCEPT
       !.client_name = IF quotation_data.client_name # Unset
                       THEN quotation_data.client_name ELSE @,
       !.valid_until = IF quotation_data.valid_until # 0
                       THEN quotation_data.valid_until ELSE @,
       !.status = IF quotation_data.status # Unset
                  THEN status_bind(QuotationStatus(quotation_data.status)) ELSE @,
       !.created_by = 0,
       !.subtotal = IF quotation_data.items_set
                    THEN calculate_quotation_totals(NewItems(quotation_data.items)).subtotal
                    ELSE @,
       !.discount_total = IF quotation_data.items_set
                          THEN calculate_quotation_totals(NewItems(quotation_data.items)).discount_total
                          ELSE @,
       !.total = IF quotation_data.items_set
                 THEN calculate_quotation_totals(NewItems(quotation_data.items)).total
                 ELSE @]

\* setattr for every field the request set, items replaced when given
update_quotation(db_quotation, quotation_data) ==
    LET patched ==
            [db_quotation EXCEPT
               !.client_name = IF quotation_data.client_name # Unset
                               THEN quotation_data.client_name ELSE @,
               !.valid_until = IF quotation_data.valid_until # 0
                               THEN quotation_data.valid_until ELSE @,
               !.status = IF quotation_data.status # Unset
                          THEN status_bind(QuotationStatus(quotation_data.status))
                          ELSE @,
               !.internal_notes = IF "internal_notes" \in DOMAIN quotation_data
                                  THEN quotation_data.internal_notes ELSE @]
        new_items == NewItems(quotation_data.items)
        quotation_totals == calculate_quotation_totals(new_items)
    IN  IF quotation_data.items_set
        THEN [patched EXCEPT !.subtotal = quotation_totals.subtotal,
                             !.discount_total = quotation_totals.discount_total,
                             !.tax_total = quotation_totals.tax_total,
                             !.total = quotation_totals.total]
        ELSE patched

\* (variant: the DELETE of the old items is missing)
replace_items_KeepsOld(old_items, items) == old_items \o NewItems(items)

\* lines 219-242: the old items are deleted, the new ones inserted
replace_items(old_items, items) == NewItems(items)

\* (variant: nobody is ever turned away)
NotOwner_Never(quotation, user) == FALSE

\* created_by != current_user.id
NotOwner(quotation, user) == quotation.created_by # user

\* the route's "status in [...]" test on the loaded row
NotEditable(existing_quotation) ==
    PyIn(status_load(existing_quotation.status), <<Str("aprobada"), Str("rechazada")>>)

\* (variant: an empty item list is let through)
items_empty_Never(quotation_data) == FALSE

\* quotation_data.items is not None and len(quotation_data.items) == 0
items_empty(quotation_data) ==
    quotation_data.items_set /\ Len(quotation_data.items) = 0

\* (variant: the item list is looked at before the owner)
UpdateRouteResult_ItemsFirst(existing_quotation, user, quotation_data) ==
    IF quotation_data.valid_until # 0
       /\ ~ValidUntilIsFuture(quotation_data.valid_until) THEN "422"
    ELSE IF ~existing_quotation.present THEN "404"
    ELSE IF quotation_data.items_set /\ Len(quotation_data.items) = 0 THEN "400"
    ELSE IF NotOwner(existing_quotation, user) THEN "403"
    ELSE IF NotEditable(existing_quotation) THEN "400"
    ELSE "200"

\* the answers of PUT /quotations/{id} in the order the checks are made
UpdateRouteResult(existing_quotation, user, quotation_data) ==
    IF quotation_data.valid_until # 0
       /\ ~ValidUntilIsFuture(quotation_data.valid_until) THEN "422"
    ELSE IF ~existing_quotation.present THEN "404"
    ELSE IF NotOwner(existing_quotation, user) THEN "403"
    ELSE IF NotEditable(existing_quotation) THEN "400"
    ELSE IF items_empty(quotation_data) THEN "400"
    ELSE "200"

\* PUT /quotations/{id}
UpdateQuotation(user, quotation_id, quotation_data) ==
    /\ Accept
    /\ LET existing_quotation == quotations[quotation_id]
           result == UpdateRouteResult(existing_quotation, user, quotation_data)
       IN  /\ IF result = "200"
              THEN /\ writer = 0
                   /\ quotations' = [quotations EXCEPT ![quotation_id] =
                                       update_quotation(existing_quotation, quotation_data)]
                   /\ quotation_items' =
                        IF quotation_data.items_set
                        THEN [quotation_items EXCEPT ![quotation_id] =
                                replace_items(@, quotation_data.items)]
                        ELSE quotation_items
              ELSE UNCHANGED <<quotations, quotation_items>>
           /\ last' = [Finished("update", quotation_id, result, "none", "none")
                          EXCEPT !.with_items = (result = "200" /\ quotation_data.items_set),
                                 !.user = Consulted(user, result),
                                 !.data = IF result = "200" THEN quotation_data ELSE NoData]
    /\ UNCHANGED <<today, writer, pc, req, issued, overlapped, item_in, item_out, call, ret>>

\* ------------------------------------------------- delete_quotation (service)
\* (variant: the status is not looked at)
delete_allowed_Always(db_quotation) == TRUE

\* "solo permitir eliminar borradores"
delete_allowed(db_quotation) ==
    PyEq(status_load(db_quotation.status), QuotationStatusEnum("borrador"))

\* the answers of DELETE /quotations/{id} in the order the checks are made
DeleteRouteResult(quotation, user) ==
    IF ~quotation.present THEN "404"
    ELSE IF NotOwner(quotation, user) THEN "403"
    ELSE IF ~delete_allowed(quotation) THEN "400"
    ELSE "204"

\* DELETE /quotations/{id}
DeleteQuotation(user, quotation_id) ==
    /\ Accept
    /\ LET quotation == quotations[quotation_id]
           result == DeleteRouteResult(quotation, user)
       IN  /\ IF result = "204"
              THEN /\ writer = 0
                   /\ quotation_items' = [quotation_items EXCEPT ![quotation_id] = <<>>]
                   /\ quotations' = [quotations EXCEPT ![quotation_id] = NoRow]
              ELSE UNCHANGED <<quotations, quotation_items>>
           /\ last' = [Finished("delete", quotation_id, result, "none", "none")
                          EXCEPT !.user = Consulted(user, result)]
    /\ UNCHANGED <<today, writer, pc, req, issued, overlapped, item_in, item_out, call, ret>>

\* ------------------------------------------- PATCH /quotations/{id}/status
valid_transitions ==
    << <<Str("borrador"), <<Str("enviada")>> >>,
       <<Str("enviada"), <<Str("aprobada"), Str("rechazada"), Str("borrador")>> >>,
       <<Str("aprobada"), <<>> >>,
       <<Str("rechazada"), <<Str("borrador")>> >> >>

\* new_status in valid_transitions.get(current_status, [])
TransitionAccepted(current_status, new_status) ==
    PyIn(new_status, DictGet(valid_transitions, current_status, <<>>))

UpdateQuotationStatus(user, quotation_id, new_status) ==
    /\ Accept
    /\ LET quotation == quotations[quotation_id]
           \* f"{internal_notes or ''}\n{now}: Estado cambiado a ... por ..."
           audit_line == [at |-> today, status |-> new_status, by |-> user]
           update_data ==
               [k \in DOMAIN NoData \cup {"internal_notes"} |->
                  IF k = "internal_notes" THEN Append(quotation.internal_notes, audit_line)
                  ELSE QuotationUpdate(Unset, 0, new_status, FALSE, <<>>)[k]]
           result ==
               IF ~quotation.present THEN "404"
               ELSE IF ~TransitionAccepted(status_load(quotation.status),
                                           QuotationStatus(new_status)) THEN "400"
               ELSE "200"
       IN  /\ IF result = "200"
              THEN /\ writer = 0
                   /\ quotations' = [quotations EXCEPT ![quotation_id] =
                                       update_quotation(quotation, update_data)]
              ELSE UNCHANGED quotations
           /\ last' = [Finished("changeStatus", quotation_id, result,
                                IF quotation.present THEN quotation.status ELSE "none",
                                new_status)
                          EXCEPT !.user = IF result = "200" THEN user ELSE 0]
    /\ UNCHANGED <<today, quotation_items, writer, pc, req, issued, overlapped,
                   item_in, item_out, call, ret>>

\* --------------------------------------------------------------- the clock
\* (variant: the answer is made up without looking at the table)
NextNumberPreview_Blind ==
    /\ Accept
    /\ last' = [Finished("preview", 0, "200", "none", "none")
                   EXCEPT !.number = generate_quotation_number([i \in Ids |-> NoRow],
                                                               YearOf(today))]
    /\ UNCHANGED <<today, quotations, quotation_items, writer, pc, req, issued,
                   overlapped, item_in, item_out, call, ret>>

\* GET /quotations/next-number/
NextNumberPreview ==
    /\ Accept
    /\ last' = [Finished("preview", 0, "200", "none", "none")
                   EXCEPT !.number = generate_quotation_number(quotations, YearOf(today))]
    /\ UNCHANGED <<today, quotations, quotation_items, writer, pc, req, issued,
                   overlapped, item_in, item_out, call, ret>>

\* midnight
NewDay ==
    /\ today < MaxDay
    /\ today' = today + 1
    /\ UNCHANGED <<quotations, quotation_items, writer, pc, req, nops, issued,
                   overlapped, last, item_in, item_out, call, ret>>

Next ==
    \/ \E r \in Reqs, u \in Creators, d \in QuotationCreateInputs : CreateQuotation(r, u, d)
    \/ \E r \in Reqs, u \in Users, i \in TargetIds : DuplicateQuotation(r, u, i)
    \/ \E r \in Reqs : CreateFlush(r)
    \/ \E r \in Reqs : CreateCommit(r)
    \/ \E r \in Reqs : CreateFails(r)
    \/ \E u \in Users, i \in TargetIds, d \in QuotationUpdateInputs : UpdateQuotation(u, i, d)
    \/ \E u \in Users, i \in TargetIds : DeleteQuotation(u, i)
    \/ \E u \in Users, i \in TargetIds, n \in StatusNames : UpdateQuotationStatus(u, i, n)
    \/ NextNumberPreview
    \/ NewDay

Spec == Init /\ [][Next]_vars

\* ------------------------------------- calculate_item_totals on its own
Quantities == {3, 7, 10, 13, 20, 24}          \* tenths
Prices == {4, 8, 33, 99, 250, 10000}          \* cents
Discounts == {0, 10, 30, 50, 70, 100}         \* percent

\* no value the code rounds, and none the documented formula rounds, is a tie
TieFree(item) ==
    LET raw == item.quantity * item.unit_price
        rounded == Round(raw, 10)
    IN  /\ raw % 10 # 5
        /\ (raw * item.discount_percentage) % 1000 # 500
        /\ (raw * (100 - item.discount_percentage)) % 1000 # 500
        /\ (rounded * item.discount_percentage) % 100 # 50

ItemDomain ==
    {it \in {Item(q, p, d) : q \in Quantities, p \in Prices, d \in Discounts} :
        TieFree(it)}

InitItem ==
    /\ today = 1
    /\ quotations = [i \in Ids |-> NoRow]
    /\ quotation_items = [i \in Ids |-> <<>>]
    /\ writer = 0
    /\ pc = [r \in Reqs |-> "idle"]
    /\ req = [r \in Reqs |-> NoReq]
    /\ nops = 0
    /\ issued = <<>>
    /\ overlapped = FALSE
    /\ last = NoLast
    /\ item_in \in ItemDomain
    /\ item_out = NoOut
    /\ call = NoCall
    /\ ret = NoRet

CalcItem ==
    /\ item_out = NoOut
    /\ item_out' = calculate_item_totals(item_in)
    /\ UNCHANGED <<today, quotations, quotation_items, writer, pc, req, nops,
                   issued, overlapped, last, item_in, call, ret>>

NextItem == CalcItem

SpecItem == InitItem /\ [][NextItem]_vars

\* ===================================================== the read operations
\* A read operation is run on a table given with the call: the rows in id
\* order, created_at never decreasing with the id, numbers of one year.
Lower(c) ==
    CASE c = "A" -> "a" [] c = "B" -> "b" [] c = "C" -> "c"
      [] c = "O" -> "o" [] c = "T" -> "t" [] OTHER -> c
LowerAll(str) == [k \in 1..Len(str) |-> Lower(str[k])]
DigitChar(d) == <<"0", "1", "2", "3", "4", "5", "6", "7", "8", "9">>[d + 1]
DigitChars(ds) == [k \in 1..Len(ds) |-> DigitChar(ds[k])]

\* f"COT-{current_year}-{next_number:03d}"
Render(number) ==
    <<"C", "O", "T", "-">> \o DigitChars(Digits(number.year)) \o <<"-">>
        \o DigitChars(number.suffix)

\* column.ilike(f"%{pattern}%")
ilike(value, pattern) ==
    \E k \in 0..(Len(value) - Len(pattern)) :
        SubSeq(LowerAll(value), k + 1, k + Len(pattern)) = LowerAll(pattern)

Acme == <<"A", "c", "m", "e">>
Bolt == <<"B", "o", "l", "t">>

TableRow(id, seq, client_name, status, created_at, total, created_by) ==
    [present |-> TRUE, id |-> id,
     quotation_number |-> [year |-> FirstYear, suffix |-> Format03d(seq)],
     client_name |-> client_name, status |-> status, created_at |-> created_at,
     total |-> total, created_by |-> created_by]

\* an Optional[...] argument
Given(v) == [given |-> TRUE, v |-> v]
NoText == [given |-> FALSE, v |-> <<>>]
NoValue == [given |-> FALSE, v |-> 0]
NoStatus == [given |-> FALSE, v |-> ""]
\* "if filters.x:" - None, 0, 0.0 and "" all count as false
TruthyText(o) == o.given /\ o.v # <<>>
TruthyValue(o) == o.given /\ o.v # 0
TruthyStatus(o) == o.given /\ o.v # ""

SeqsUpTo(S, n) == UNION {[1..k -> S] : k \in 0..n}

\* --- tables for the list: four kinds of row
ListKinds ==
    { [client_name |-> Acme, status |-> "borrador", created_at |-> 1, total |-> 0],
      [client_name |-> Bolt, status |-> "enviada", created_at |-> 1, total |-> 300],
      [client_name |-> Acme, status |-> "enviada", created_at |-> MaxStamp, total |-> 300],
      [client_name |-> Bolt, status |-> "borrador", created_at |-> MaxStamp, total |-> 0] }

ListTables ==
    { [i \in 1..Len(ks) |->
          TableRow(i, i, ks[i].client_name, ks[i].status, ks[i].created_at,
                   ks[i].total, 1)] :
        ks \in {t \in SeqsUpTo(ListKinds, MaxRows) :
                   \A i \in 1..(Len(t) - 1) : t[i].created_at <= t[i + 1].created_at} }

QuotationFilters ==
    [quotation_number : {NoText, Given(<<"t", "-">> \o DigitChars(Digits(FirstYear))
                                          \o <<"-", "0", "0", "2">>)},
     client_name : {NoText, Given(<<"a", "C">>)},
     status : {NoStatus, Given("borrador")},
     start_date : {NoValue, Given(MaxStamp)},
     end_date : {NoValue, Given(1)},
     min_amount : {NoValue, Given(300)},
     max_amount : {NoValue, Given(0)},
     page : 1..MaxPage,
     limit : 1..MaxLimit]

\* --- tables for the statistics: six kinds of row
StatKinds ==
    { [status |-> "borrador", total |-> 100, created_by |-> 1],
      [status |-> "borrador", total |-> 200, created_by |-> 2],
      [status |-> "enviada", total |-> 100, created_by |-> 1],
      [status |-> "enviada", total |-> 200, created_by |-> 2],
      [status |-> "aprobada", total |-> 200, created_by |-> 1],
      [status |-> "rechazada", total |-> 100, created_by |-> 2] }

StatTables ==
    { [i \in 1..Len(ks) |->
          TableRow(i, i, Acme, ks[i].status, 1, ks[i].total, ks[i].created_by)] :
        ks \in SeqsUpTo(StatKinds, MaxRows) }

\* --- tables for the number generator: serial numbers around the last
\* three-digit one, in creation order
SerialNumbers == {1, 2, 999, 1000}

NumberTables ==
    { [i \in 1..Len(ns) |-> TableRow(i, ns[i], Acme, "borrador", 1, 100, 1)] :
        ns \in {t \in SeqsUpTo(SerialNumbers, MaxRows) :
                   \A i \in 1..(Len(t) - 1) : t[i] < t[i + 1]} }

\* the calls of one operation: every table with every argument
Calls(fn) ==
    IF fn = "list"
    THEN {[fn |-> "list", rows |-> t, filters |-> f] :
             t \in ListTables, f \in QuotationFilters}
    ELSE IF fn = "stats"
    THEN {[fn |-> "stats", rows |-> t, user_id |-> u] :
             t \in StatTables, u \in {NoValue} \cup {Given(x) : x \in Users}}
    ELSE {[fn |-> "number", rows |-> t, current_year |-> y] :
             t \in NumberTables, y \in {FirstYear, FirstYear + 1}}

\* ----------------------------------------------- get_quotations_with_filters
\* the rows the chain of query.filter(...) calls lets through
Filtered(rows, filters) ==
    {i \in DOMAIN rows :
        /\ TruthyText(filters.quotation_number) =>
              ilike(Render(rows[i].quotation_number), filters.quotation_number.v)
        /\ TruthyText(filters.client_name) =>
              ilike(rows[i].client_name, filters.client_name.v)
        /\ TruthyStatus(filters.status) =>
              rows[i].status = status_bind(QuotationStatus(filters.status.v))
        /\ filters.start_date.given => rows[i].created_at >= filters.start_date.v
        /\ filters.end_date.given => rows[i].created_at <= filters.end_date.v
        /\ TruthyValue(filters.min_amount) => rows[i].total >= filters.min_amount.v
        /\ TruthyValue(filters.max_amount) => rows[i].total <= filters.max_amount.v}

\* order_by(desc(created_at)): the orders the database may deliver; rows with
\* the same created_at come in an order the query does not fix
Orders(rows, ids) ==
    {o \in [1..Cardinality(ids) -> ids] :
        /\ \A a, b \in 1..Cardinality(ids) : a # b => o[a] # o[b]
        /\ \A a \in 1..(Cardinality(ids) - 1) :
              rows[o[a]].created_at >= rows[o[a + 1]].created_at}

\* math.ceil(a / b)
Ceil(a, b) == (a + b - 1) \div b

get_quotations_with_filters(rows, filters, order) ==
    LET total_count == Len(order)
        offset == (filters.page - 1) * filters.limit
        upto == IF offset + filters.limit < total_count
                THEN offset + filters.limit ELSE total_count
        total_pages == Ceil(total_count, filters.limit)
    IN  [fn |-> "list",
         quotations |-> SubSeq(order, offset + 1, upto),
         total_count |-> total_count,
         total_pages |-> total_pages,
         current_page |-> filters.page,
         per_page |-> filters.limit,
         has_next |-> filters.page < total_pages,
         has_prev |-> filters.page > 1]

\* -------------------------------------------------------- get_quotation_stats
SumTotals(rows, ids) ==
    SumSeq([i \in 1..Len(rows) |-> IF i \in ids THEN rows[i].total ELSE 0])

\* (variant: the sums per status forget the owner)
get_quotation_stats_UnscopedSums(rows, user_id) ==
    LET query == {i \in DOMAIN rows :
                     TruthyValue(user_id) => rows[i].created_by = user_id.v}
        total_quotations == Cardinality(query)
        total_value == SumTotals(rows, query)
    IN  [fn |-> "stats",
         total_quotations |-> total_quotations,
         total_value |-> total_value,
         by_status |->
            [st \in StatusNames |->
                [count |-> Cardinality({i \in query :
                               rows[i].status = status_bind(QuotationStatusEnum(st))}),
                 total_value |-> SumTotals(rows, {i \in DOMAIN rows :
                               rows[i].status = status_bind(QuotationStatusEnum(st))})]],
         avg_value |-> IF total_quotations > 0
                       THEN Round(total_value, total_quotations) ELSE 0]

get_quotation_stats(rows, user_id) ==
    LET query == {i \in DOMAIN rows :
                     TruthyValue(user_id) => rows[i].created_by = user_id.v}
        total_quotations == Cardinality(query)
        total_value == SumTotals(rows, {i \in DOMAIN rows :
                           TruthyValue(user_id) => rows[i].created_by = user_id.v})
    IN  [fn |-> "stats",
         total_quotations |-> total_quotations,
         total_value |-> total_value,
         by_status |->
            [st \in StatusNames |->
                [count |-> Cardinality({i \in query :
                               rows[i].status = status_bind(QuotationStatusEnum(st))}),
                 total_value |-> SumTotals(rows, {i \in DOMAIN rows :
                               /\ rows[i].status = status_bind(QuotationStatusEnum(st))
                               /\ TruthyValue(user_id) =>
                                     rows[i].created_by = user_id.v})]],
         avg_value |-> IF total_quotations > 0
                       THEN Round(total_value, total_quotations) ELSE 0]

\* ------------------------------------------------------------ the query runs
InitQuery ==
    /\ today = 1
    /\ quotations = [i \in Ids |-> NoRow]
    /\ quotation_items = [i \in Ids |-> <<>>]
    /\ writer = 0
    /\ pc = [r \in Reqs |-> "idle"]
    /\ req = [r \in Reqs |-> NoReq]
    /\ nops = 0
    /\ issued = <<>>
    /\ overlapped = FALSE
    /\ last = NoLast
    /\ item_in = Item(20, 10000, 10)
    /\ item_out = NoOut
    /\ \E fn \in {"list", "stats", "number"} : call \in Calls(fn)
    /\ ret = NoRet

ListQuery ==
    /\ call.fn = "list" /\ ret = NoRet
    /\ \E order \in Orders(call.rows, Filtered(call.rows, call.filters)) :
          ret' = get_quotations_with_filters(call.rows, call.filters, order)
    /\ UNCHANGED <<today, quotations, quotation_items, writer, pc, req, nops,
                   issued, overlapped, last, item_in, item_out, call>>

StatsQuery ==
    /\ call.fn = "stats" /\ ret = NoRet
    /\ ret' = get_quotation_stats(call.rows, call.user_id)
    /\ UNCHANGED <<today, quotations, quotation_items, writer, pc, req, nops,
                   issued, overlapped, last, item_in, item_out, call>>

NumberQuery ==
    /\ call.fn = "number" /\ ret = NoRet
    /\ ret' = [fn |-> "number",
               number |-> generate_quotation_number(call.rows, call.current_year)]
    /\ UNCHANGED <<today, quotations, quotation_items, writer, pc, req, nops,
                   issued, overlapped, last, item_in, item_out, call>>

NextQuery == ListQuery \/ StatsQuery \/ NumberQuery

SpecQuery == InitQuery /\ [][NextQuery]_vars

\* ================================================================== claims
ItemsOf(i) == quotation_items[i]
SumOf(i, f(_)) == SumSeq([k \in 1..Len(ItemsOf(i)) |-> f(ItemsOf(i)[k])])
ItemSubtotal(it) == it.subtotal
ItemDiscount(it) == it.discount_amount
ItemTotal(it) == it.total

AllowedTransitions ==
    { <<"borrador", "enviada">>, <<"enviada", "aprobada">>,
      <<"enviada", "rechazada">>, <<"enviada", "borrador">>,
      <<"rechazada", "borrador">> }

\* C1: concurrent creations in one year all succeed - a create request that
\* passed validation is never turned away because its number was taken.
C1_ConcurrentCreatesAllSucceed ==
    (last.op = "create" /\ last.result \notin {"422", "500 OperationalError"})
        => last.result = "201"

\* C2: no two stored quotations carry the same quotation_number.
C2_StoredNumbersDistinct ==
    \A i, j \in PresentIds :
        i # j => quotations[i].quotation_number # quotations[j].quotation_number

\* two quotations are stored and an insert was refused for its number
C2_Witness ==
    /\ Cardinality(PresentIds) >= 2
    /\ last.result = "500 IntegrityError"

\* C3: a number, once assigned, is never assigned again, also after the
\* quotation that carried it was deleted.
C3_NumbersNeverReassigned ==
    \A i, j \in 1..Len(issued) : i # j => issued[i] # issued[j]

\* C4: created one after another and never deleted, the quotations of a year
\* are numbered from 1 upwards, each above all earlier ones of its year.
NoDeletions == Len(issued) = Cardinality(PresentIds)

C4_SerialNumbersIncrease ==
    (~overlapped /\ NoDeletions) =>
        \A i \in 1..Len(issued) :
            LET earlier == {j \in 1..(i - 1) : issued[j].year = issued[i].year}
            IN  IF earlier = {}
                THEN ParseInt(issued[i].suffix) = 1
                ELSE \A j \in earlier :
                        ParseInt(issued[i].suffix) > ParseInt(issued[j].suffix)

\* two serial creations in the old year, then the first one of the new year
C4_Witness ==
    /\ ~overlapped /\ NoDeletions
    /\ Len(issued) = 3
    /\ issued[1].year = FirstYear /\ issued[2].year = FirstYear
    /\ issued[3].year = FirstYear + 1

\* C5: every stored quotation has subtotal and discount_total equal to the
\* sums over its current items, tax_total 0 and total = subtotal -
\* discount_total + tax_total.
C5_TotalsMatchItems ==
    \A i \in PresentIds :
        /\ quotations[i].subtotal = SumOf(i, ItemSubtotal)
        /\ quotations[i].discount_total = SumOf(i, ItemDiscount)
        /\ quotations[i].tax_total = 0
        /\ quotations[i].total = quotations[i].subtotal
                                 - quotations[i].discount_total
                                 + quotations[i].tax_total

\* an update has just replaced the items of a quotation, which now holds the
\* two discounted items and their totals
C5_Witness ==
    /\ last.op = "update" /\ last.result = "200" /\ last.with_items
    /\ quotations[last.id].present
    /\ Len(quotation_items[last.id]) = 2
    /\ quotations[last.id].subtotal = 5
    /\ quotations[last.id].discount_total = 2
    /\ quotations[last.id].total = 3

\* C6: every stored quotation's total is the sum of its items' stored totals
\* (and subtotal, discount_total the sums of the items' stored fields).
C6_TotalIsSumOfItemTotals ==
    \A i \in PresentIds :
        /\ quotations[i].total = SumOf(i, ItemTotal)
        /\ quotations[i].subtotal = SumOf(i, ItemSubtotal)
        /\ quotations[i].discount_total = SumOf(i, ItemDiscount)

\* C7: itemTotals derives discount_amount from the rounded subtotal and total
\* from the two rounded values, so total = subtotal - discount_amount.
C7_ItemTotalsChainRounded ==
    item_out # NoOut =>
        LET subtotal == Round(item_in.quantity * item_in.unit_price, 10)
            discount_amount == Round(subtotal * item_in.discount_percentage, 100)
        IN  /\ item_out.subtotal = subtotal
            /\ item_out.discount_amount = discount_amount
            /\ item_out.total = subtotal - discount_amount

\* C8: changeStatus on an existing quotation succeeds exactly for the five
\* allowed pairs and then stores the new status; otherwise it is refused.
C8_ChangeStatusFollowsTable ==
    (last.op = "changeStatus" /\ last.result # "404") =>
        /\ last.result = "200" <=> <<last.pre_status, last.new_status>> \in AllowedTransitions
        /\ last.result = "200" => quotations[last.id].status = last.new_status
        /\ last.result # "200" => quotations[last.id].status = last.pre_status

\* C9: an approved quotation is never changed or removed again.
C9_ApprovedIsTerminal ==
    [][\A i \in Ids :
          (quotations[i].present /\ quotations[i].status = "aprobada") =>
              /\ quotations'[i] = quotations[i]
              /\ quotation_items'[i] = quotation_items[i]]_vars

\* C10: the stored status of a quotation changes only through changeStatus,
\* along one of the five allowed transitions; update never changes it.
C10_StatusChangesOnlyByChangeStatus ==
    [][\A i \in Ids :
          (quotations[i].present /\ quotations'[i].present
             /\ quotations'[i].status # quotations[i].status) =>
              /\ last'.op = "changeStatus"
              /\ <<quotations[i].status, quotations'[i].status>> \in AllowedTransitions]_vars

\* ---- steps of the single-step handlers, told by the answer they leave
UpdateStep(i) ==
    nops' = nops + 1 /\ pc' = pc /\ last'.op = "update" /\ last'.id = i
DeleteStep(i) ==
    nops' = nops + 1 /\ pc' = pc /\ last'.op = "delete" /\ last'.id = i
ChangeStatusStep(i) ==
    nops' = nops + 1 /\ pc' = pc /\ last'.op = "changeStatus" /\ last'.id = i
CommitStep(r) ==
    pc[r] = "flushed" /\ pc'[r] = "idle" /\ last'.result = "201"
StoreUnchanged == quotations' = quotations /\ quotation_items' = quotation_items
Succeeded == {"200", "201", "204"}

\* C11: an update of a quotation that is approved or rejected is refused and
\* leaves the quotation and its items as they were; an update of a draft or
\* sent quotation by its owner with valid data is applied.
C11_UpdateRefusedWhenDecided ==
    [][\A i \in Ids :
          (UpdateStep(i) /\ quotations[i].present) =>
              /\ quotations[i].status \in {"aprobada", "rechazada"} =>
                    /\ last'.result \notin Succeeded
                    /\ quotations'[i] = quotations[i]
                    /\ quotation_items'[i] = quotation_items[i]
              /\ (/\ quotations[i].status \in {"borrador", "enviada"}
                  /\ last'.user = quotations[i].created_by
                  /\ last'.result \notin {"422", "400"}) => last'.result = "200"]_vars

\* C12: delete removes a quotation only when it is a draft, and then removes
\* it with all its items; on a sent, approved or rejected quotation it fails
\* and changes nothing; on an unknown id it answers not-found.
C12_DeleteOnlyDrafts ==
    [][\A i \in Ids :
          /\ (quotations[i].present /\ ~quotations'[i].present) =>
                /\ DeleteStep(i)
                /\ quotations[i].status = "borrador"
          /\ DeleteStep(i) =>
                /\ ~quotations[i].present => (last'.result = "404" /\ StoreUnchanged)
                /\ (quotations[i].present /\ quotations[i].status # "borrador") =>
                      (last'.result \notin Succeeded /\ StoreUnchanged)
                /\ last'.result = "204" =>
                      /\ quotations[i].present /\ quotations[i].status = "borrador"
                      /\ quotations'[i] = NoRow
                      /\ quotation_items'[i] = <<>>
                      /\ \A j \in Ids \ {i} :
                            /\ quotations'[j] = quotations[j]
                            /\ quotation_items'[j] = quotation_items[j]]_vars

\* a draft and its items have just been deleted
C12_Witness ==
    /\ last.op = "delete" /\ last.result = "204"
    /\ ~quotations[last.id].present
    /\ quotation_items[last.id] = <<>>

C15_CreateStoresInput ==
    [][\A r \in Reqs :
          (CommitStep(r) /\ req[r].op = "create") =>
              LET q == quotations'[req[r].id]
                  stored == quotation_items'[req[r].id]
                  input == req[r].items
              IN  /\ ~quotations[req[r].id].present
                  /\ q.present
                  /\ q.status = "borrador"
                  /\ q.created_by = req[r].user
                  /\ q.created_by = last'.user
                  /\ q.quotation_number = req[r].number
                  /\ \A j \in Ids \ {req[r].id} :
                        quotations'[j].present =>
                            quotations'[j].quotation_number # q.quotation_number
                  /\ q.client_name = req[r].client_name
                  /\ q.valid_until = req[r].valid_until
                  /\ Len(stored) = Len(input)
                  /\ \A k \in 1..Len(input) :
                        /\ stored[k].quantity = input[k].quantity
                        /\ stored[k].unit_price = input[k].unit_price
                        /\ stored[k].discount_percentage = input[k].discount_percentage
                        /\ stored[k].subtotal = calculate_item_totals(input[k]).subtotal
                        /\ stored[k].discount_amount =
                               calculate_item_totals(input[k]).discount_amount
                        /\ stored[k].total = calculate_item_totals(input[k]).total]_vars

\* a create with two items has just been stored as a draft of user 1
C15_Witness ==
    /\ last.op = "create" /\ last.result = "201"
    /\ quotations[last.id].present
    /\ quotations[last.id].status = "borrador"
    /\ quotations[last.id].created_by = 1
    /\ Len(quotation_items[last.id]) = 2

\* C16: a create whose input has no items, an item with quantity <= 0 or
\* unit_price <= 0, or a valid_until not after today is rejected with a
\* validation error that names the 1-based index of the first offending item,
\* and stores nothing.
C16_CreateRejectsBadInput ==
    [][/\ \A r \in Reqs :
            (pc[r] = "idle" /\ pc'[r] = "numbered" /\ req'[r].op = "create") =>
                /\ Len(req'[r].items) > 0
                /\ first_bad_item(req'[r].items) = {}
                /\ req'[r].valid_until > today
       /\ (nops' = nops + 1 /\ pc' = pc /\ last'.op = "create") =>
            /\ last'.result \in {"400", "422"}
            /\ StoreUnchanged
            /\ (/\ first_bad_item(last'.data.items) # {}
                /\ last'.data.valid_until > today) =>
                  last'.named = first_bad_item(last'.data.items)]_vars

C18_UpdateItemsFrame ==
    [][\A i \in Ids :
          (UpdateStep(i) /\ last'.result = "200") =>
              LET d == last'.data
                  old == quotations[i]
                  new == quotations'[i]
                  stored == quotation_items'[i]
              IN  IF d.items_set
                  THEN /\ Len(stored) = Len(d.items)
                       /\ \A k \in 1..Len(d.items) :
                             /\ stored[k].quantity = d.items[k].quantity
                             /\ stored[k].unit_price = d.items[k].unit_price
                             /\ stored[k].discount_percentage =
                                    d.items[k].discount_percentage
                             /\ stored[k].subtotal = calculate_item_totals(d.items[k]).subtotal
                             /\ stored[k].discount_amount =
                                    calculate_item_totals(d.items[k]).discount_amount
                             /\ stored[k].total = calculate_item_totals(d.items[k]).total
                       /\ new.subtotal = SumSeq([k \in 1..Len(stored) |-> stored[k].subtotal])
                       /\ new.discount_total =
                              SumSeq([k \in 1..Len(stored) |-> stored[k].discount_amount])
                       /\ new.tax_total = 0
                       /\ new.total = new.subtotal - new.discount_total
                  ELSE /\ stored = quotation_items[i]
                       /\ new.subtotal = old.subtotal
                       /\ new.discount_total = old.discount_total
                       /\ new.tax_total = old.tax_total
                       /\ new.total = old.total
                       /\ new.client_name =
                              IF d.client_name # Unset THEN d.client_name ELSE old.client_name
                       /\ new.valid_until =
                              IF d.valid_until # 0 THEN d.valid_until ELSE old.valid_until
                       /\ new.status = IF d.status # Unset THEN d.status ELSE old.status
                       /\ new.internal_notes = old.internal_notes]_vars

\* an update without items has renamed the client of a quotation with items
C18_Witness ==
    /\ last.op = "update" /\ last.result = "200"
    /\ ~last.data.items_set /\ last.data.client_name = "bolt"
    /\ last.data.status = Unset
    /\ quotations[last.id].client_name = "bolt"
    /\ Len(quotation_items[last.id]) = 1

\* C19: no update, changeStatus or duplicate changes the quotation_number,
\* the id or the created_by of a stored quotation.
C19_IdentityImmutable ==
    [][\A i \in Ids :
          (quotations[i].present /\ quotations'[i].present) =>
              /\ quotations'[i].quotation_number = quotations[i].quotation_number
              /\ quotations'[i].created_by = quotations[i].created_by]_vars

\* the first quotation was updated with a new client, date and status and
\* still carries the first number issued and its creator
C19_Witness ==
    /\ last.op = "update" /\ last.result = "200"
    /\ last.data.client_name = "bolt" /\ last.data.status = "enviada"
    /\ quotations[last.id].quotation_number = issued[1]
    /\ quotations[last.id].created_by = 1
    /\ quotations[last.id].status = "enviada"

ReadStep(r) == pc[r] = "idle" /\ pc'[r] = "numbered"
PreviewStep == nops' = nops + 1 /\ pc' = pc /\ last'.op = "preview"
SameInput(row, item) ==
    /\ row.quantity = item.quantity
    /\ row.unit_price = item.unit_price
    /\ row.discount_percentage = item.discount_percentage

\* C21: a successful duplicate stores, under an id not in use and a number
\* no other stored quotation carries, a draft owned by the requesting user
\* with the client, validity and items (quantity, unit price, discount) it
\* read from the source; no other quotation and no other item is touched.
C21_DuplicateCopiesSource ==
    [][\A r \in Reqs :
          /\ (ReadStep(r) /\ req'[r].op = "duplicate") =>
                LET source == quotations[req'[r].id]
                    rows == quotation_items[req'[r].id]
                IN  /\ source.present
                    /\ req'[r].client_name = source.client_name
                    /\ req'[r].valid_until = source.valid_until
                    /\ Len(req'[r].items) = Len(rows)
                    /\ \A k \in 1..Len(rows) : SameInput(rows[k], req'[r].items[k])
                    /\ StoreUnchanged
          /\ (CommitStep(r) /\ req[r].op = "duplicate") =>
                LET q == quotations'[req[r].id]
                    stored == quotation_items'[req[r].id]
                IN  /\ ~quotations[req[r].id].present
                    /\ q.present
                    /\ q.status = "borrador"
                    /\ q.created_by = last'.user /\ q.created_by = req[r].user
                    /\ q.client_name = req[r].client_name
                    /\ q.valid_until = req[r].valid_until
                    /\ Len(stored) = Len(req[r].items)
                    /\ \A k \in 1..Len(stored) : SameInput(stored[k], req[r].items[k])
                    /\ \A j \in Ids \ {req[r].id} :
                          /\ quotations'[j] = quotations[j]
                          /\ quotation_items'[j] = quotation_items[j]
                          /\ quotations'[j].present =>
                                quotations'[j].quotation_number # q.quotation_number]_vars

\* user 2 has duplicated a quotation of user 1, which is still there
C21_Witness ==
    /\ last.op = "duplicate" /\ last.result = "201" /\ last.user = 2
    /\ quotations[last.id].present
    /\ quotations[last.id].created_by = 2
    /\ quotations[last.id].status = "borrador"
    /\ \E j \in PresentIds \ {last.id} :
          /\ quotations[j].created_by = 1
          /\ quotations[j].client_name = quotations[last.id].client_name
          /\ quotations[j].valid_until = quotations[last.id].valid_until
          /\ quotation_items[j] = quotation_items[last.id]
          /\ quotations[j].quotation_number # quotations[last.id].quotation_number

\* C22: duplicate fails only with not-found; for a stored quotation, whatever
\* its status, age and validity date, it succeeds (number conflicts and
\* failures of the database apart).
C22_DuplicateFailsOnlyNotFound ==
    (last.op = "duplicate"
       /\ last.result \notin {"500 IntegrityError", "500 OperationalError"})
        => last.result \in {"201", "404"}

C29_GatesHoldAtCommit ==
    [][\A i \in Ids :
          quotations[i].present =>
              /\ (quotations'[i].present
                    /\ quotations'[i].status # quotations[i].status) =>
                     <<quotations[i].status, quotations'[i].status>> \in AllowedTransitions
              /\ (quotations[i].status \in {"aprobada", "rechazada"}
                    /\ quotations'[i].present) =>
                     /\ [quotations'[i] EXCEPT !.status = quotations[i].status,
                                               !.internal_notes = quotations[i].internal_notes]
                            = quotations[i]
                     /\ quotation_items'[i] = quotation_items[i]]_vars

\* C30: every stored quotation has at least one item and every stored item
\* belongs to a stored quotation.
C30_ItemsIffQuotation ==
    \A i \in Ids :
        IF quotations[i].present THEN Len(quotation_items[i]) >= 1
        ELSE quotation_items[i] = <<>>

\* the owner's update with an empty item list was refused and the quotation
\* still has its items
C30_Witness ==
    /\ last.op = "update" /\ last.result = "400"
    /\ quotations[last.id].present
    /\ last.user = quotations[last.id].created_by
    /\ Len(quotation_items[last.id]) >= 1

\* ---- what the read operations are expected to return
Matching(rows, f) ==
    {i \in DOMAIN rows :
        /\ f.quotation_number.given =>
              ilike(Render(rows[i].quotation_number), f.quotation_number.v)
        /\ f.client_name.given => ilike(rows[i].client_name, f.client_name.v)
        /\ f.status.given => rows[i].status = f.status.v
        /\ f.start_date.given => rows[i].created_at >= f.start_date.v
        /\ f.end_date.given => rows[i].created_at <= f.end_date.v
        /\ f.min_amount.given => rows[i].total >= f.min_amount.v
        /\ f.max_amount.given => rows[i].total <= f.max_amount.v}
Scope(rows, user_id) ==
    {i \in DOMAIN rows : user_id.given => rows[i].created_by = user_id.v}
InStatus(rows, ids, st) == {i \in ids : rows[i].status = st}
TotalOf(rows, ids) == SumSeq([i \in 1..Len(rows) |-> IF i \in ids THEN rows[i].total ELSE 0])
StatusSeq == <<"borrador", "enviada", "aprobada", "rechazada">>

\* C23: the list is made of exactly the quotations that satisfy every filter
\* that is present, all of them together; a present bound of 0 restricts too.
C23_ListAppliesEveryPresentFilter ==
    ret.fn = "list" =>
        LET expected == Matching(call.rows, call.filters)
        IN  /\ ret.total_count = Cardinality(expected)
            /\ \A k \in 1..Len(ret.quotations) : ret.quotations[k] \in expected

\* C24: with c filtered rows the list reports total_pages = max(1,
\* ceil(c/limit)), has_next = page < total_pages, has_prev = page > 1, and
\* returns the rows at positions (page-1)*limit+1 .. min(page*limit, c).
C24_Pagination ==
    ret.fn = "list" =>
        LET c == ret.total_count
            page == call.filters.page
            limit == call.filters.limit
            total_pages == Max({1, Ceil(c, limit)})
            positions == {k \in 1..c : (page - 1) * limit + 1 <= k /\ k <= page * limit}
        IN  /\ ret.total_pages = total_pages
            /\ ret.has_next = (page < total_pages)
            /\ ret.has_prev = (page > 1)
            /\ Len(ret.quotations) = Cardinality(positions)

\* C25: the list comes newest first, and of two quotations with the same
\* created_at the one with the larger id comes first.
C25_OrderIsDetermined ==
    ret.fn = "list" =>
        \A a, b \in 1..Len(ret.quotations) :
            a < b =>
                LET x == call.rows[ret.quotations[a]]
                    y == call.rows[ret.quotations[b]]
                IN  \/ x.created_at > y.created_at
                    \/ (x.created_at = y.created_at /\ x.id > y.id)

\* the counts and sums the statistics are to show for one call
StatsFigures ==
    LET rows == call.rows
        scope == Scope(rows, call.user_id)
        counts == [k \in 1..Len(StatusSeq) |-> ret.by_status[StatusSeq[k]].count]
        values == [k \in 1..Len(StatusSeq) |-> ret.by_status[StatusSeq[k]].total_value]
    IN  /\ DOMAIN ret.by_status = StatusNames
        /\ \A st \in StatusNames :
              /\ ret.by_status[st].count = Cardinality(InStatus(rows, scope, st))
              /\ ret.by_status[st].total_value = TotalOf(rows, InStatus(rows, scope, st))
        /\ ret.total_quotations = Cardinality(scope)
        /\ ret.total_value = TotalOf(rows, scope)
        /\ SumSeq(counts) = ret.total_quotations
        /\ SumSeq(values) = ret.total_value

\* C26 as stated: counts and sums per status and in all, scoped to the owner
\* when one is given, and avg_value = grand total / count (0 for no rows).
C26_StatsExactAverage ==
    ret.fn = "stats" =>
        /\ StatsFigures
        /\ IF ret.total_quotations > 0
           THEN ret.avg_value * ret.total_quotations = ret.total_value
           ELSE ret.avg_value = 0

\* C26: counts and sums per status and in all, scoped to the owner when one
\* is given, and avg_value = grand total / count rounded to the cent (0 for
\* no rows); the figures per status add up to the grand figures.
C26_StatsRoundedAverage ==
    ret.fn = "stats" =>
        /\ StatsFigures
        /\ IF ret.total_quotations > 0
           THEN ret.avg_value = Round(ret.total_value, ret.total_quotations)
           ELSE ret.avg_value = 0

\* statistics of user 1 over a table that also holds a quotation of user 2
C26_Witness ==
    /\ ret.fn = "stats"
    /\ call.user_id = Given(1)
    /\ Len(call.rows) = 3
    /\ \E i \in DOMAIN call.rows : call.rows[i].created_by = 2
    /\ ret.total_quotations = 2
    /\ ret.total_value = 300
    /\ ret.avg_value = 150
    /\ ret.by_status["aprobada"].count = 1

\* C28: the generated number is the number of no stored quotation and its
\* sequence is above the sequence of every stored quotation of the year,
\* also when the year holds sequences of 999 and more.
C28_GeneratedNumberIsNew ==
    ret.fn = "number" =>
        \A i \in DOMAIN call.rows :
            /\ call.rows[i].quotation_number # ret.number
            /\ call.rows[i].quotation_number.year = call.current_year =>
                  ParseInt(ret.number.suffix)
                      > ParseInt(call.rows[i].quotation_number.suffix)

====
